---- MODULE Spec2Model ----
(***************************************************************************)
(* Model of the roguelike of index.js: map generation, entity placement    *)
(* and the turn engine (handleInput -> attemptMove / heroAttack ->         *)
(* updateEnemies).  JavaScript runs every handler to completion, so no     *)
(* input is accepted while a handler is running; the enemy sweep of        *)
(* updateEnemies is stepped one loop iteration at a time so that the       *)
(* states inside one player action can be observed.                        *)
(***************************************************************************)
EXTENDS Integers, Sequences, FiniteSets, TLC

\* ---- tile legend (index.js 9-12)
TILE_EMPTY == 0
TILE_WALL == 1
TILE_SWORD == 2
TILE_POTION == 3

\* ---- configuration, scaled down so that the state space is finite and small.
\* index.js sets MAP_WIDTH = 40, MAP_HEIGHT = 24, ROOM_MIN = 3, ROOM_MAX = 8,
\* ROOM_COUNT_MIN = 5, ROOM_COUNT_MAX = 10, CORRIDOR_MIN = 3, CORRIDOR_MAX = 5,
\* ENEMY_COUNT = 10, ENEMY_HP = 5, HERO_HP = 10, and placeItems places 2
\* sword tiles and 10 potion tiles.
MAP_WIDTH == 3
MAP_HEIGHT == 3
ROOM_MIN == 1
ROOM_MAX == 1
ROOM_COUNT_MIN == 0
ROOM_COUNT_MAX == 0
CORRIDOR_MIN == 1
CORRIDOR_MAX == 1
ENEMY_COUNT == 2
ENEMY_HP == 2
HERO_HP == 3
SwordsPlaced == 1
PotionsPlaced == 1

\* ---- configuration kept at the program's values
SWORD_COUNT == 1
POTION_COUNT == 2
ENEMY_ATTACK == 1
HERO_ATTACK == 1

VARIABLES
  map,             \* map[y][x], the tile grid (index.js 46)
  hero,            \* the hero record (index.js 47)
  enemies,         \* the enemy list, in list order (index.js 48)
  rooms,           \* the rooms of the last generation (index.js 49)
  potionsCarried,  \* HUD counter (index.js 42)
  killed,          \* HUD counter (index.js 43)
  _gameOver,       \* this._gameOver
  _win,            \* this._win
  pc,              \* "new": before init(); "idle": waiting for an event;
                   \* "updateEnemies": inside the loop of updateEnemies
  i,               \* the loop index of updateEnemies (1-based here)
  key,             \* the key of the handleInput call in progress, or "none"
  op,              \* what that call did so far: "moved", "blocked", "attack"
                   \* (kept after a call whose enemy loop had no iteration);
                   \* "ignored" after a call that returned at the _gameOver
                   \* guard; "init" right after init(); otherwise "none"
  entry            \* <<St>> with the game state at the entry of the handleInput
                   \* call in progress, while its enemy loop runs; else << >>

vars == <<map, hero, enemies, rooms, potionsCarried, killed, _gameOver, _win, pc, i, key, op,
          entry>>

game == <<map, hero, enemies, potionsCarried, killed, _gameOver, _win>>

\* ---- helpers

Abs(n) == IF n < 0 THEN -n ELSE n

Min(a, b) == IF a < b THEN a ELSE b

Max(a, b) == IF a > b THEN a ELSE b

MinOf(S) == CHOOSE m \in S : \A n \in S : m <= n

\* Math.floor(a + n / 2) for integers a, n >= 0
FloorHalf(a, n) == a + (n \div 2)

\* The values Math.floor(Math.random() * (max - min + 1)) + min can take, with
\* Math.random() in [0, 1): min .. max, and for max < min (a negative factor)
\* the values max + 1 .. min.
randomInt(min, max) == IF max >= min THEN min .. max ELSE (max + 1) .. min

Xs == 0 .. (MAP_WIDTH - 1)

Ys == 0 .. (MAP_HEIGHT - 1)

\* The game state the operations work on, as one record.
St == [map |-> map, hero |-> hero, enemies |-> enemies,
       potionsCarried |-> potionsCarried, killed |-> killed,
       _gameOver |-> _gameOver, _win |-> _win]

\* map[y][x] = t
setTile(m, x, y, t) ==
  [yy \in Ys |-> [xx \in Xs |-> IF xx = x /\ yy = y THEN t ELSE m[yy][xx]]]

\* enemies.findIndex(e => e.x === tx && e.y === ty), 1-based, 0 for -1
findIndex(es, tx, ty) ==
  LET M == {j \in 1 .. Len(es) : es[j].x = tx /\ es[j].y = ty}
  IN IF M = {} THEN 0 ELSE MinOf(M)

\* enemies.splice(idx, 1)
splice(es, idx) == SubSeq(es, 1, idx - 1) \o SubSeq(es, idx + 1, Len(es))

\* a coordinate that is clamped at the edge instead of wrapped
wrapClamp(v, n) == IF v < 0 THEN 0 ELSE IF v >= n THEN n - 1 ELSE v

\* the wrap-around of one coordinate: the two if statements, in order
wrap(v, n) ==
  LET a == IF v < 0 THEN n - 1 ELSE v
  IN IF a >= n THEN 0 ELSE a

dirs == << [dx |-> -1, dy |-> 0], [dx |-> 1, dy |-> 0],
           [dx |-> 0, dy |-> -1], [dx |-> 0, dy |-> 1] >>

moves == << [dx |-> 0, dy |-> 0], [dx |-> -1, dy |-> 0], [dx |-> 1, dy |-> 0],
            [dx |-> 0, dy |-> -1], [dx |-> 0, dy |-> 1] >>

\* the four directions of keyMap, one key for each (the other keys of the
\* table map to the same four pairs)
keyMap == [k \in {"w", "a", "s", "d"} |->
            CASE k = "w" -> [dx |-> 0, dy |-> -1]
              [] k = "a" -> [dx |-> -1, dy |-> 0]
              [] k = "s" -> [dx |-> 0, dy |-> 1]
              [] k = "d" -> [dx |-> 1, dy |-> 0]]

\* ---- end of game

endGame(s) == [s EXCEPT !.hero.hp = 0, !._gameOver = TRUE, !._win = FALSE]

win(s) == [s EXCEPT !._gameOver = TRUE, !._win = TRUE]

\* ---- Move

\* a pickup whose heal is not clamped to maxHp
checkPickupNoClamp(s) ==
  LET t == s.map[s.hero.y][s.hero.x]
  IN IF t = TILE_POTION
       THEN [s EXCEPT !.potionsCarried = @ + 1,
                      !.hero.hp = @ + POTION_COUNT,
                      !.map = setTile(@, s.hero.x, s.hero.y, TILE_EMPTY)]
       ELSE IF t = TILE_SWORD
         THEN [s EXCEPT !.hero.attack = @ + SWORD_COUNT,
                        !.map = setTile(@, s.hero.x, s.hero.y, TILE_EMPTY)]
         ELSE s

checkPickup(s) ==
  LET t == s.map[s.hero.y][s.hero.x]
  IN IF t = TILE_POTION
       THEN [s EXCEPT !.potionsCarried = @ + 1,
                      !.hero.hp = Min(s.hero.maxHp, @ + POTION_COUNT),
                      !.map = setTile(@, s.hero.x, s.hero.y, TILE_EMPTY)]
       ELSE IF t = TILE_SWORD
         THEN [s EXCEPT !.hero.attack = @ + SWORD_COUNT,
                        !.map = setTile(@, s.hero.x, s.hero.y, TILE_EMPTY)]
         ELSE s

\* the forEach of adjacentEnemyDamage from direction d on
RECURSIVE adjacentDamageFrom(_, _)
adjacentDamageFrom(s, d) ==
  IF d > Len(dirs) THEN s
  ELSE LET tx == s.hero.x + dirs[d].dx
           ty == s.hero.y + dirs[d].dy
           idx == findIndex(s.enemies, tx, ty)
           s1 == IF idx # 0
                   THEN [s EXCEPT !.hero.hp = @ - s.enemies[idx].attack]
                   ELSE s
       IN adjacentDamageFrom(s1, d + 1)

adjacentEnemyDamage(s) ==
  LET s1 == adjacentDamageFrom(s, 1)
  IN IF s1.hero.hp <= 0 THEN endGame(s1) ELSE s1

\* the candidate tile of a Move
candidate(s, dx, dy) ==
  [x |-> wrap(s.hero.x + dx, MAP_WIDTH), y |-> wrap(s.hero.y + dy, MAP_HEIGHT)]

\* the two early returns of attemptMove
moveBlocked(s, dx, dy) ==
  LET c == candidate(s, dx, dy)
  IN \/ s.map[c.y][c.x] = TILE_WALL
     \/ \E j \in 1 .. Len(s.enemies) : s.enemies[j].x = c.x /\ s.enemies[j].y = c.y

\* a Move that resolves the adjacency damage before the pickup
attemptMoveDamageFirst(s, dx, dy) ==
  LET c == candidate(s, dx, dy)
  IN IF moveBlocked(s, dx, dy) THEN s
     ELSE checkPickup(adjacentEnemyDamage([s EXCEPT !.hero.x = c.x, !.hero.y = c.y]))

attemptMove(s, dx, dy) ==
  LET c == candidate(s, dx, dy)
  IN IF moveBlocked(s, dx, dy) THEN s
     ELSE adjacentEnemyDamage(checkPickup([s EXCEPT !.hero.x = c.x, !.hero.y = c.y]))

\* ---- Attack

\* the enemy at idx survives the hit with hp1 > 0 left and retaliates
retaliate(s, idx, hp1) ==
  [s EXCEPT !.enemies[idx].hp = hp1,
            !.hero.hp = @ - s.enemies[idx].attack,
            !.enemies[idx]._justRetaliated = TRUE]

\* a kill in which the dying enemy still strikes back
killEnemyRetaliates(s, idx) ==
  [s EXCEPT !.hero.hp = @ - s.enemies[idx].attack,
            !.enemies = splice(s.enemies, idx),
            !.killed = @ + 1]

\* a kill that forgets the counter
killEnemyNoCount(s, idx) == [s EXCEPT !.enemies = splice(s.enemies, idx)]

\* the enemy at idx dies
killEnemy(s, idx) == [s EXCEPT !.enemies = splice(s.enemies, idx), !.killed = @ + 1]

\* a forEach that ends at the first kill
RECURSIVE heroAttackFromStopsAtKill(_, _)
heroAttackFromStopsAtKill(s, d) ==
  IF d > Len(dirs) THEN s
  ELSE LET tx == s.hero.x + dirs[d].dx
           ty == s.hero.y + dirs[d].dy
           idx == findIndex(s.enemies, tx, ty)
           hp1 == IF idx # 0 THEN s.enemies[idx].hp - s.hero.attack ELSE 0
       IN IF idx = 0 THEN heroAttackFromStopsAtKill(s, d + 1)
          ELSE IF hp1 > 0 THEN heroAttackFromStopsAtKill(retaliate(s, idx, hp1), d + 1)
          ELSE killEnemy(s, idx)

\* the forEach of heroAttack from direction d on
RECURSIVE heroAttackFrom(_, _)
heroAttackFrom(s, d) ==
  IF d > Len(dirs) THEN s
  ELSE LET tx == s.hero.x + dirs[d].dx
           ty == s.hero.y + dirs[d].dy
           idx == findIndex(s.enemies, tx, ty)
           hp1 == IF idx # 0 THEN s.enemies[idx].hp - s.hero.attack ELSE 0
           s1 == IF idx = 0 THEN s
                 ELSE IF hp1 > 0 THEN retaliate(s, idx, hp1)
                 ELSE killEnemy(s, idx)
       IN heroAttackFrom(s1, d + 1)

\* a victory test that is off by one
heroAttackWinsEarly(s) ==
  LET s1 == heroAttackFrom(s, 1)
  IN IF Len(s1.enemies) = 0 \/ s1.killed >= ENEMY_COUNT - 1 THEN win(s1)
     ELSE IF s1.hero.hp <= 0 THEN endGame(s1)
     ELSE s1

heroAttack(s) ==
  LET s1 == heroAttackFrom(s, 1)
  IN IF Len(s1.enemies) = 0 \/ s1.killed >= ENEMY_COUNT THEN win(s1)
     ELSE IF s1.hero.hp <= 0 THEN endGame(s1)
     ELSE s1

\* ---- Enemy turn

\* an enemy turn that does not look at the flag
skipsTurnNever(e) == FALSE

\* the test that makes an iteration clear the flag and continue
skipsTurn(e) == e._justRetaliated

\* an adjacency test that follows the wrap-around of movement
adjacentToHeroToroidal(e, h) ==
  LET dx == Abs(e.x - h.x)
      dy == Abs(e.y - h.y)
  IN \/ ((dx = 1 \/ dx = MAP_WIDTH - 1) /\ dy = 0)
     \/ (dx = 0 /\ (dy = 1 \/ dy = MAP_HEIGHT - 1))

\* an adjacency test that takes the diagonal neighbours too
adjacentToHeroDiagonal(e, h) ==
  LET dx == Abs(e.x - h.x)
      dy == Abs(e.y - h.y)
  IN dx <= 1 /\ dy <= 1 /\ dx + dy > 0

\* the orthogonal adjacency test of updateEnemies
adjacentToHero(e, h) ==
  LET dx == Abs(e.x - h.x)
      dy == Abs(e.y - h.y)
  IN (dx = 1 /\ dy = 0) \/ (dx = 0 /\ dy = 1)

\* a step test that does not look at the other enemies
stepAllowedNoOthers(s, k, nx, ny) ==
  /\ s.map[ny][nx] = TILE_EMPTY
  /\ ~(nx = s.hero.x /\ ny = s.hero.y)

\* a step test that only keeps enemies off the walls
stepAllowedOnItems(s, k, nx, ny) ==
  /\ s.map[ny][nx] # TILE_WALL
  /\ ~(nx = s.hero.x /\ ny = s.hero.y)
  /\ ~\E j \in 1 .. Len(s.enemies) :
        j # k /\ s.enemies[j].x = nx /\ s.enemies[j].y = ny

\* the test under which enemies[k] commits its step to (nx, ny)
stepAllowed(s, k, nx, ny) ==
  /\ s.map[ny][nx] = TILE_EMPTY
  /\ ~(nx = s.hero.x /\ ny = s.hero.y)
  /\ ~\E j \in 1 .. Len(s.enemies) :
        j # k /\ s.enemies[j].x = nx /\ s.enemies[j].y = ny

\* an iteration that skips a flagged enemy but leaves its flag set
updateEnemyKeepsFlag(s, k, m) ==
  LET e == s.enemies[k]
  IN IF skipsTurn(e)
       THEN [s |-> s, ret |-> FALSE]
       ELSE IF adjacentToHero(e, s.hero)
         THEN LET s1 == [s EXCEPT !.hero.hp = @ - e.attack]
              IN IF s1.hero.hp <= 0
                   THEN [s |-> endGame(s1), ret |-> TRUE]
                   ELSE [s |-> s1, ret |-> FALSE]
         ELSE LET mv == moves[m + 1]
                  nx == wrap(e.x + mv.dx, MAP_WIDTH)
                  ny == wrap(e.y + mv.dy, MAP_HEIGHT)
              IN IF (mv.dx # 0 \/ mv.dy # 0) /\ stepAllowed(s, k, nx, ny)
                   THEN [s |-> [s EXCEPT !.enemies[k].x = nx, !.enemies[k].y = ny],
                         ret |-> FALSE]
                   ELSE [s |-> s, ret |-> FALSE]

\* One iteration of the loop of updateEnemies, for enemies[k]; m is the value
\* randomInt(0, moves.length - 1) returns if the iteration draws it.
\* ret: the iteration left updateEnemies by its return statement.
updateEnemy(s, k, m) ==
  LET e == s.enemies[k]
  IN IF skipsTurn(e)
       THEN [s |-> [s EXCEPT !.enemies[k]._justRetaliated = FALSE], ret |-> FALSE]
       ELSE IF adjacentToHero(e, s.hero)
         THEN LET s1 == [s EXCEPT !.hero.hp = @ - e.attack]
              IN IF s1.hero.hp <= 0
                   THEN [s |-> endGame(s1), ret |-> TRUE]
                   ELSE [s |-> s1, ret |-> FALSE]
         ELSE LET mv == moves[m + 1]
                  nx == wrap(e.x + mv.dx, MAP_WIDTH)
                  ny == wrap(e.y + mv.dy, MAP_HEIGHT)
              IN IF (mv.dx # 0 \/ mv.dy # 0) /\ stepAllowed(s, k, nx, ny)
                   THEN [s |-> [s EXCEPT !.enemies[k].x = nx, !.enemies[k].y = ny],
                         ret |-> FALSE]
                   ELSE [s |-> s, ret |-> FALSE]

\* ---- Map generation

\* generateMap for a grid of width by height tiles
generateMapOf(width, height) ==
  [y \in 0 .. (height - 1) |-> [x \in 0 .. (width - 1) |-> TILE_WALL]]

generateMap == generateMapOf(MAP_WIDTH, MAP_HEIGHT)

\* the rooms one iteration of placeRooms can draw, for a grid of width by
\* height tiles and room sizes from rmin to rmax
roomChoicesOf(width, height, rmin, rmax) ==
  UNION {{[x |-> x, y |-> y, w |-> d[1], h |-> d[2]] :
            x \in randomInt(1, width - d[1] - 2),
            y \in randomInt(1, height - d[2] - 2)} :
           d \in randomInt(rmin, rmax) \X randomInt(rmin, rmax)}

roomChoices == roomChoicesOf(MAP_WIDTH, MAP_HEIGHT, ROOM_MIN, ROOM_MAX)

\* the room lists placeRooms can build
roomLists ==
  UNION {[1 .. n -> roomChoices] : n \in randomInt(ROOM_COUNT_MIN, ROOM_COUNT_MAX)}

\* the inner loops of placeRooms for one room
carveRoom(m, r) ==
  [y \in DOMAIN m |-> [x \in DOMAIN m[y] |->
     IF r.y <= y /\ y < r.y + r.h /\ r.x <= x /\ x < r.x + r.w
       THEN TILE_EMPTY ELSE m[y][x]]]

RECURSIVE placeRoomsFrom(_, _, _)
placeRoomsFrom(m, rs, n) ==
  IF n > Len(rs) THEN m ELSE placeRoomsFrom(carveRoom(m, rs[n]), rs, n + 1)

placeRooms(m, rs) == placeRoomsFrom(m, rs, 1)

\* an L whose vertical run is carved in the column of the first room
carveLInFirstColumn(m, r1, r2) ==
  LET x1 == FloorHalf(r1.x, r1.w)
      y1 == FloorHalf(r1.y, r1.h)
      x2 == FloorHalf(r2.x, r2.w)
      y2 == FloorHalf(r2.y, r2.h)
  IN [y \in DOMAIN m |-> [x \in DOMAIN m[y] |->
       IF \/ (y = y1 /\ Min(x1, x2) <= x /\ x <= Max(x1, x2))
          \/ (x = x1 /\ Min(y1, y2) <= y /\ y <= Max(y1, y2))
         THEN TILE_EMPTY ELSE m[y][x]]]

\* the L-shaped corridor between rooms r1 and r2
carveL(m, r1, r2) ==
  LET x1 == FloorHalf(r1.x, r1.w)
      y1 == FloorHalf(r1.y, r1.h)
      x2 == FloorHalf(r2.x, r2.w)
      y2 == FloorHalf(r2.y, r2.h)
  IN [y \in DOMAIN m |-> [x \in DOMAIN m[y] |->
       IF \/ (y = y1 /\ Min(x1, x2) <= x /\ x <= Max(x1, x2))
          \/ (x = x2 /\ Min(y1, y2) <= y /\ y <= Max(y1, y2))
         THEN TILE_EMPTY ELSE m[y][x]]]

RECURSIVE carveLFrom(_, _, _)
carveLFrom(m, rs, n) ==
  IF n > Len(rs) THEN m ELSE carveLFrom(carveL(m, rs[n - 1], rs[n]), rs, n + 1)

\* the rows (columns) the full-span corridor loops can draw
corridorRows ==
  UNION {[1 .. n -> randomInt(1, MAP_HEIGHT - 2)] : n \in randomInt(CORRIDOR_MIN, CORRIDOR_MAX)}

corridorCols ==
  UNION {[1 .. n -> randomInt(1, MAP_WIDTH - 2)] : n \in randomInt(CORRIDOR_MIN, CORRIDOR_MAX)}

\* carveCorridors with the drawn rows hs and columns vs
carveCorridors(m, rs, hs, vs) ==
  LET m1 == carveLFrom(m, rs, 2)
  IN [y \in Ys |-> [x \in Xs |->
       IF (\E n \in 1 .. Len(hs) : hs[n] = y) \/ (\E n \in 1 .. Len(vs) : vs[n] = x)
         THEN TILE_EMPTY ELSE m1[y][x]]]

\* ---- Placement

newHero == [x |-> 0, y |-> 0, hp |-> HERO_HP, maxHp |-> HERO_HP, attack |-> HERO_ATTACK]

newEnemy(x, y) ==
  [x |-> x, y |-> y, hp |-> ENEMY_HP, maxHp |-> ENEMY_HP, attack |-> ENEMY_ATTACK,
   _justRetaliated |-> FALSE]

\* the heroes placeHero can end with: the loop ends at the first Empty tile drawn
placeHero(m) ==
  {[newHero EXCEPT !.x = x, !.y = y] : <<x, y>> \in {q \in Xs \X Ys : m[q[2]][q[1]] = TILE_EMPTY}}

\* an item test that does not look at the hero
itemAcceptsHeroTile(m, h, x, y) == m[y][x] = TILE_EMPTY

\* the test of the two loops of placeItems
itemAccepts(m, h, x, y) == m[y][x] = TILE_EMPTY /\ ~(x = h.x /\ y = h.y)

\* the maps one loop of placeItems can end with after placing n more tiles t
RECURSIVE placeTiles(_, _, _, _)
placeTiles(m, h, t, n) ==
  IF n = 0 THEN {m}
  ELSE UNION {placeTiles(setTile(m, q[1], q[2], t), h, t, n - 1) :
                q \in {c \in Xs \X Ys : itemAccepts(m, h, c[1], c[2])}}

placeItems(m, h) ==
  UNION {placeTiles(m1, h, TILE_POTION, PotionsPlaced) :
           m1 \in placeTiles(m, h, TILE_SWORD, SwordsPlaced)}

\* the test of the loop of placeEnemies
enemyAccepts(m, h, es, x, y) ==
  /\ m[y][x] = TILE_EMPTY
  /\ (x # h.x \/ y # h.y)
  /\ ~\E j \in 1 .. Len(es) : es[j].x = x /\ es[j].y = y

\* the lists placeEnemies can end with, from the list es built so far
RECURSIVE placeEnemiesFrom(_, _, _)
placeEnemiesFrom(m, h, es) ==
  IF ~(Len(es) < ENEMY_COUNT) THEN {es}
  ELSE UNION {placeEnemiesFrom(m, h, Append(es, newEnemy(q[1], q[2]))) :
                q \in {c \in Xs \X Ys : enemyAccepts(m, h, es, c[1], c[2])}}

placeEnemies(m, h) == placeEnemiesFrom(m, h, << >>)

\* ---- The state machine

Init ==
  /\ map = << >>
  /\ hero = newHero
  /\ enemies = << >>
  /\ rooms = << >>
  /\ potionsCarried = 0
  /\ killed = 0
  /\ _gameOver = FALSE    \* undefined before init(), which reads as false
  /\ _win = FALSE
  /\ pc = "new"
  /\ i = 0
  /\ key = "none"
  /\ op = "none"
  /\ entry = << >>

\* init(): counters and flags reset, generation, placement
init ==
  /\ potionsCarried' = 0
  /\ killed' = 0
  /\ _gameOver' = FALSE
  /\ _win' = FALSE
  /\ \E rs \in roomLists, hs \in corridorRows, vs \in corridorCols :
       LET m == carveCorridors(placeRooms(generateMap, rs), rs, hs, vs)
       IN /\ rooms' = rs
          /\ \E h \in placeHero(m) :
               /\ hero' = h
               /\ \E m1 \in placeItems(m, h) :
                    /\ map' = m1
                    /\ enemies' \in placeEnemies(m1, h)
  /\ pc' = "idle"
  /\ i' = 0
  /\ key' = "none"
  /\ op' = "init"
  /\ entry' = << >>

\* the page creates the Game and calls init()
Load == pc = "new" /\ init

\* the click handler of the Restart button, which only a finished game shows
Restart == pc = "idle" /\ _gameOver /\ init

\* the keys an event can carry: the four directions, the space bar, and "x"
\* for any key handleInput does not know
Keys == {"w", "a", "s", "d", " ", "x"}

\* the player's part of handleInput: the state after attemptMove or heroAttack
playerAction(s, k) ==
  IF k \in DOMAIN keyMap THEN attemptMove(s, keyMap[k].dx, keyMap[k].dy)
  ELSE IF k = " " THEN heroAttack(s)
  ELSE s

\* a handleInput that lacks the _gameOver guard
inputIgnoredNever == FALSE

\* handleInput returns at once
inputIgnored == _gameOver

\* handleInput up to the call of updateEnemies
HandleInput(k) ==
  /\ pc = "idle"
  /\ IF inputIgnored
       THEN /\ op' = "ignored"
            /\ UNCHANGED <<game, rooms, pc, i, key, entry>>
       ELSE IF k \notin DOMAIN keyMap /\ k # " "
         THEN UNCHANGED vars
         ELSE LET s1 == playerAction(St, k)
              IN /\ map' = s1.map
                 /\ hero' = s1.hero
                 /\ enemies' = s1.enemies
                 /\ potionsCarried' = s1.potionsCarried
                 /\ killed' = s1.killed
                 /\ _gameOver' = s1._gameOver
                 /\ _win' = s1._win
                 /\ UNCHANGED rooms
                 /\ key' = k
                 /\ op' = IF k = " " THEN "attack"
                          ELSE IF moveBlocked(St, keyMap[k].dx, keyMap[k].dy)
                            THEN "blocked" ELSE "moved"
                 /\ IF Len(s1.enemies) = 0
                      THEN pc' = "idle" /\ i' = 0 /\ entry' = << >>
                      ELSE pc' = "updateEnemies" /\ i' = 1 /\ entry' = <<St>>

\* one iteration of the loop of updateEnemies; after the last one handleInput
\* draws and returns
UpdateEnemies ==
  /\ pc = "updateEnemies"
  /\ \E m \in randomInt(0, Len(moves) - 1) :
       LET r == updateEnemy(St, i, m)
       IN /\ map' = r.s.map
          /\ hero' = r.s.hero
          /\ enemies' = r.s.enemies
          /\ potionsCarried' = r.s.potionsCarried
          /\ killed' = r.s.killed
          /\ _gameOver' = r.s._gameOver
          /\ _win' = r.s._win
          /\ UNCHANGED rooms
          /\ IF r.ret \/ i + 1 > Len(r.s.enemies)
               THEN pc' = "idle" /\ i' = 0 /\ key' = "none" /\ op' = "none"
                    /\ entry' = << >>
               ELSE pc' = pc /\ i' = i + 1 /\ UNCHANGED <<key, op, entry>>

Next ==
  \/ Load
  \/ Restart
  \/ \E k \in Keys : HandleInput(k)
  \/ UpdateEnemies

Spec == Init /\ [][Next]_vars

\* ---- The phase of the spec, as draw() tells it from the two flags

Playing == pc # "new" /\ ~_gameOver

Won == _gameOver /\ _win

Lost == _gameOver /\ ~_win

\* the coordinates of the enemies, in list order
positions(es) == [j \in 1 .. Len(es) |-> <<es[j].x, es[j].y>>]

\* ---- Claims

\* C1: terminal stability.  Once the phase is Won or Lost, every further
\* input (every step from the idle terminal state that is not the Restart,
\* which alone resets _gameOver) leaves the grid, the hero, the enemy list and
\* the two counters as they were and starts no enemy turn.
C1_TerminalStability ==
  [][(pc = "idle" /\ _gameOver /\ _gameOver')
       => (UNCHANGED <<map, hero, enemies, potionsCarried, killed>> /\ pc' = "idle")]_vars

\* a finished game that has received a further input
C1_Witness == pc = "idle" /\ Lost /\ op = "ignored" /\ Len(enemies) > 0

\* C2: the enemy turn runs only while the phase is Playing: from the moment a
\* Move or an Attack has ended the game, no enemy moves and the grid and the
\* hero stay as they are for the rest of that action.
C2_NoEnemyTurnAfterGameEnd ==
  [][(pc = "updateEnemies" /\ _gameOver)
       => (UNCHANGED <<map, hero>> /\ positions(enemies') = positions(enemies))]_vars

\* C3: a Move whose candidate tile is a Wall or holds an enemy changes
\* nothing: hero, grid, enemies, counters and phase are the same after the
\* action (the call of attemptMove and everything handleInput runs after it)
\* as before it.
C3_BlockedMoveChangesNothing ==
  [][((pc = "idle" /\ op' = "blocked") \/ (pc = "updateEnemies" /\ op = "blocked"))
       => UNCHANGED game]_vars

\* ---- Vocabulary of the claims C4 .. C10

\* the step in which handleInput runs heroAttack
AttackStep == pc = "idle" /\ ~_gameOver /\ op' = "attack"

\* the step in which handleInput runs attemptMove and the hero moves
MoveStep == pc = "idle" /\ ~_gameOver /\ op' = "moved"

\* the step of Load or Restart
InitStep == pc = "new" \/ (pc = "idle" /\ _gameOver /\ ~_gameOver')

\* e stands on one of the four tiles hero + dirs[d]
besideHero(e, h) ==
  \E d \in 1 .. Len(dirs) : e.x = h.x + dirs[d].dx /\ e.y = h.y + dirs[d].dy

\* b is one wrapped step away from a
wrapNeighbour(a, b) ==
  \E d \in 1 .. Len(dirs) :
    /\ b.x = (a.x + dirs[d].dx + MAP_WIDTH) % MAP_WIDTH
    /\ b.y = (a.y + dirs[d].dy + MAP_HEIGHT) % MAP_HEIGHT

\* the sum of the attack values of the enemies of es at the indices in S
RECURSIVE attackSum(_, _)
attackSum(es, S) ==
  IF S = {} THEN 0
  ELSE LET j == CHOOSE n \in S : TRUE
       IN es[j].attack + attackSum(es, S \ {j})

\* es has an enemy on the tile of e
hasAt(es, e) == \E n \in 1 .. Len(es) : es[n].x = e.x /\ es[n].y = e.y

\* the tiles of the grid that hold tile t
tilesOf(t) == {c \in Xs \X Ys : map[c[2]][c[1]] = t}

\* C4: retaliation, no double attack.  In an Attack exactly the enemies that
\* were hit and survive carry the flag afterwards, and the hero has lost the
\* sum of their attack values (or stands at 0, Lost); in the enemy turn of that
\* action the iteration of a flagged enemy leaves the hero and every position
\* as they are and clears the flag: each retaliating enemy damages the hero
\* exactly once in the action.
C4_RetaliationNoDoubleAttack ==
  [][/\ AttackStep =>
          LET R == {j \in 1 .. Len(enemies') : enemies'[j]._justRetaliated}
          IN /\ \A j \in 1 .. Len(enemies') :
                  enemies'[j]._justRetaliated <=>
                    \E n \in 1 .. Len(enemies) :
                      /\ enemies[n].x = enemies'[j].x
                      /\ enemies[n].y = enemies'[j].y
                      /\ enemies'[j].hp = enemies[n].hp - hero.attack
                      /\ besideHero(enemies[n], hero)
             /\ hero'.hp = IF Lost' THEN 0 ELSE hero.hp - attackSum(enemies', R)
     /\ (pc = "updateEnemies" /\ op = "attack" /\ enemies[i]._justRetaliated) =>
          /\ hero' = hero
          /\ positions(enemies') = positions(enemies)
          /\ ~enemies'[i]._justRetaliated]_vars

\* the enemy turn of an Attack reaches an enemy that has retaliated
C4_Witness ==
  /\ pc = "updateEnemies"
  /\ op = "attack"
  /\ enemies[i]._justRetaliated
  /\ besideHero(enemies[i], hero)
  /\ hero.hp < hero.maxHp

\* C5: health clamp.  In every state of a game, so after every completed
\* action and also after the player's part of it and after each iteration of
\* the enemy turn, 0 <= hero.hp <= maxHp, and hero.hp = 0 exactly when the
\* phase is Lost.
C5_HealthClamp ==
  pc # "new" => (0 <= hero.hp /\ hero.hp <= hero.maxHp /\ (hero.hp = 0 <=> Lost))

\* a game in which the hero drank a potion and died later
C5_Witness == pc = "idle" /\ Lost /\ hero.hp = 0 /\ potionsCarried > 0

\* C6: kill accounting.  In every state of a game killed + |enemies| is the
\* configured enemy count; within a game killed never decreases and grows by
\* exactly the number of enemies removed; enemies are removed only by an
\* Attack, and only those beside the hero whose hp the hit brings to <= 0.
C6_KillAccounting ==
  /\ [](pc # "new" => killed + Len(enemies) = ENEMY_COUNT)
  /\ [][~InitStep =>
          /\ killed' >= killed
          /\ killed' - killed = Len(enemies) - Len(enemies')
          /\ Len(enemies') # Len(enemies) =>
               /\ AttackStep
               /\ \A n \in 1 .. Len(enemies) :
                    ~hasAt(enemies', enemies[n]) =>
                      /\ besideHero(enemies[n], hero)
                      /\ enemies[n].hp - hero.attack <= 0]_vars

\* an Attack has killed one enemy of two
C6_Witness ==
  pc = "updateEnemies" /\ op = "attack" /\ killed = 1 /\ Len(enemies) = ENEMY_COUNT - 1

\* C7: position invariant.  In every state of a game, also between the
\* iterations of the enemy turn, no two enemies share a tile, no enemy stands
\* on the hero's tile, and neither the hero nor an enemy stands on a Wall.
C7_PositionInvariant ==
  pc # "new" =>
    /\ \A j, n \in 1 .. Len(enemies) :
          j # n => ~(enemies[j].x = enemies[n].x /\ enemies[j].y = enemies[n].y)
    /\ \A j \in 1 .. Len(enemies) :
          /\ ~(enemies[j].x = hero.x /\ enemies[j].y = hero.y)
          /\ map[enemies[j].y][enemies[j].x] # TILE_WALL
    /\ map[hero.y][hero.x] # TILE_WALL

\* the second enemy is about to draw its step while the first one, already
\* processed in this turn, stands one wrapped step away from it
C7_Witness ==
  /\ pc = "updateEnemies"
  /\ i = 2
  /\ op = "moved"
  /\ ~enemies[2]._justRetaliated
  /\ ~adjacentToHero(enemies[2], hero)
  /\ wrapNeighbour(enemies[2], enemies[1])

\* C8: coordinate wrapping.  Every coordinate of the hero and of the enemies
\* lies in [0, width) x [0, height); a Move puts the hero on the tile one step
\* away modulo the grid size, and an iteration of the enemy turn leaves each
\* enemy where it was or one step away modulo the grid size.
C8_CoordinateWrapping ==
  /\ [](pc # "new" =>
          /\ hero.x \in Xs /\ hero.y \in Ys
          /\ \A j \in 1 .. Len(enemies) : enemies[j].x \in Xs /\ enemies[j].y \in Ys)
  /\ [][/\ MoveStep =>
              /\ hero'.x = (hero.x + keyMap[key'].dx + MAP_WIDTH) % MAP_WIDTH
              /\ hero'.y = (hero.y + keyMap[key'].dy + MAP_HEIGHT) % MAP_HEIGHT
        /\ pc = "updateEnemies" =>
              /\ Len(enemies') = Len(enemies)
              /\ \A j \in 1 .. Len(enemies) :
                    \/ enemies'[j].x = enemies[j].x /\ enemies'[j].y = enemies[j].y
                    \/ wrapNeighbour(enemies[j], enemies'[j])]_vars

\* the hero has just stepped west across the seam
C8_Witness ==
  pc = "updateEnemies" /\ op = "moved" /\ key = "a" /\ hero.x = MAP_WIDTH - 1

\* C9: Won exactly when no enemy remains, which is when killed has reached
\* the configured count; the phase becomes Won only in the step of an Attack,
\* never in a Move or in the enemy turn.
C9_WonIffNoEnemies ==
  /\ [](pc # "new" =>
          /\ Won <=> Len(enemies) = 0
          /\ Won <=> killed = ENEMY_COUNT)
  /\ [][(~Won /\ Won') => AttackStep]_vars

\* an Attack has just won the game
C9_Witness == pc = "idle" /\ Won /\ op = "attack" /\ killed = ENEMY_COUNT

\* C10: placement non-overlap.  After generation the hero stands on an Empty
\* tile, every enemy stands on an Empty tile that is not the hero's and not
\* another enemy's, and the placed items lie on as many tiles as were placed
\* (none on another, none under the hero or an enemy).
C10_PlacementNonOverlap ==
  op = "init" =>
    /\ map[hero.y][hero.x] = TILE_EMPTY
    /\ \A j \in 1 .. Len(enemies) :
          /\ map[enemies[j].y][enemies[j].x] = TILE_EMPTY
          /\ ~(enemies[j].x = hero.x /\ enemies[j].y = hero.y)
    /\ \A j, n \in 1 .. Len(enemies) :
          j # n => ~(enemies[j].x = enemies[n].x /\ enemies[j].y = enemies[n].y)
    /\ Cardinality(tilesOf(TILE_SWORD)) = SwordsPlaced
    /\ Cardinality(tilesOf(TILE_POTION)) = PotionsPlaced

\* a freshly generated game with all its entities
C10_Witness ==
  /\ op = "init"
  /\ Len(enemies) = ENEMY_COUNT
  /\ tilesOf(TILE_SWORD) # {}
  /\ tilesOf(TILE_POTION) # {}

\* C11: item counts.  After generation the grid holds exactly 1 Sword tile and
\* exactly POTION_COUNT Potion tiles, and the enemy list holds exactly
\* ENEMY_COUNT enemies.
C11_ItemCounts ==
  op = "init" =>
    /\ Cardinality(tilesOf(TILE_SWORD)) = 1
    /\ Cardinality(tilesOf(TILE_POTION)) = POTION_COUNT
    /\ Len(enemies) = ENEMY_COUNT

\* ---- Placement, one loop iteration at a time
\*
\* The three placement functions as loops: each step is one iteration, with
\* the tile it draws; an iteration whose tile is rejected changes nothing and
\* the loop draws again.  pc is the loop that is running; i is the local
\* variable `placed` of placeItems.

\* the rows of the full-width corridors for corridor counts from 0 on: with
\* no full-width corridor the grid has fewer Empty tiles than placement asks
\* for
corridorRowsFrom0 ==
  UNION {[1 .. n -> randomInt(1, MAP_HEIGHT - 2)] : n \in 0 .. CORRIDOR_MAX}

\* init() of a fresh page up to the call of placeHero, on one of these grids
PlacementInit ==
  /\ \E rs \in roomLists, hs \in corridorRowsFrom0, vs \in corridorCols :
       /\ rooms = rs
       /\ map = carveCorridors(placeRooms(generateMap, rs), rs, hs, vs)
  /\ hero = newHero
  /\ enemies = << >>
  /\ potionsCarried = 0
  /\ killed = 0
  /\ _gameOver = FALSE
  /\ _win = FALSE
  /\ pc = "placeHero"
  /\ i = 0
  /\ key = "none"
  /\ op = "none"
  /\ entry = << >>

\* one iteration of the loop of placeHero
PlaceHeroTry ==
  /\ pc = "placeHero"
  /\ \E x \in randomInt(0, MAP_WIDTH - 1), y \in randomInt(0, MAP_HEIGHT - 1) :
       IF map[y][x] = TILE_EMPTY
         THEN /\ hero' = [hero EXCEPT !.x = x, !.y = y]
              /\ pc' = "placeSwords"
              /\ i' = 0
         ELSE UNCHANGED <<hero, pc, i>>
  /\ UNCHANGED <<map, enemies, rooms, potionsCarried, killed, _gameOver, _win, key, op, entry>>

\* the test and one iteration of a loop of placeItems that places n tiles t
PlaceItemTry(loop, t, n, after) ==
  /\ pc = loop
  /\ IF ~(i < n)
       THEN /\ pc' = after
            /\ i' = 0
            /\ UNCHANGED map
       ELSE \E x \in randomInt(0, MAP_WIDTH - 1), y \in randomInt(0, MAP_HEIGHT - 1) :
              IF itemAccepts(map, hero, x, y)
                THEN /\ map' = setTile(map, x, y, t)
                     /\ i' = i + 1
                     /\ UNCHANGED pc
                ELSE UNCHANGED <<map, i, pc>>
  /\ UNCHANGED <<hero, enemies, rooms, potionsCarried, killed, _gameOver, _win, key, op, entry>>

PlaceSwordTry == PlaceItemTry("placeSwords", TILE_SWORD, SwordsPlaced, "placePotions")

PlacePotionTry == PlaceItemTry("placePotions", TILE_POTION, PotionsPlaced, "placeEnemies")

\* the test and one iteration of the loop of placeEnemies; after the loop
\* init() goes on to draw and bind the input
PlaceEnemyTry ==
  /\ pc = "placeEnemies"
  /\ IF ~(Len(enemies) < ENEMY_COUNT)
       THEN /\ pc' = "idle"
            /\ op' = "init"
            /\ UNCHANGED enemies
       ELSE \E x \in randomInt(0, MAP_WIDTH - 1), y \in randomInt(0, MAP_HEIGHT - 1) :
              IF enemyAccepts(map, hero, enemies, x, y)
                THEN /\ enemies' = Append(enemies, newEnemy(x, y))
                     /\ UNCHANGED <<pc, op>>
                ELSE UNCHANGED <<enemies, pc, op>>
  /\ UNCHANGED <<map, hero, rooms, potionsCarried, killed, _gameOver, _win, i, key, entry>>

PlacementNext ==
  \/ PlaceHeroTry
  \/ PlaceSwordTry
  \/ PlacePotionTry
  \/ PlaceEnemyTry

PlacementSpec == PlacementInit /\ [][PlacementNext]_vars

\* C12: placement never retries forever.  Whatever grid it is given,
\* placement either has ended (with all entities placed, or by giving up) or
\* its next iterations can still change the state: it is never in a loop
\* whose every further attempt is rejected and leaves the state as it is.
C12_PlacementNeverRetriesForever ==
  pc = "idle" \/ ENABLED <<PlacementNext>>_vars

\* ---- Vocabulary of the claims C13 .. C20

\* the enemy list an Attack of hero h leaves of es, as the claim tells it: the
\* neighbours the hit kills are gone, the other neighbours have lost h.attack
\* hp and carry the flag, everyone else is as before, in the same order
afterAttack(es, h) ==
  LET dies(e) == besideHero(e, h) /\ e.hp - h.attack <= 0
      stays(e) == ~dies(e)
      kept == SelectSeq(es, stays)
  IN [j \in 1 .. Len(kept) |->
        IF besideHero(kept[j], h)
          THEN [kept[j] EXCEPT !.hp = @ - h.attack, !._justRetaliated = TRUE]
          ELSE kept[j]]

\* the indices of the neighbours of h in es that survive its hit
survivors(es, h) ==
  {n \in 1 .. Len(es) : besideHero(es[n], h) /\ es[n].hp - h.attack > 0}

\* C13: Attack resolution.  In one Attack every enemy on one of the four
\* neighbour tiles of the hero loses hero.attack hp once; those left with
\* hp > 0 stay in the list, flagged, and each takes its attack from hero.hp
\* once (hero.hp is then set to 0 if the game is Lost); those at hp <= 0 are
\* removed, counted in killed, and do not damage the hero; all other enemies,
\* the hero's position and attack and the grid are untouched.  All four
\* neighbours are handled, whatever happened to the earlier ones.
C13_AttackResolution ==
  [][AttackStep =>
       LET dmg == attackSum(enemies, survivors(enemies, hero))
       IN /\ enemies' = afterAttack(enemies, hero)
          /\ killed' = killed + (Len(enemies) - Len(afterAttack(enemies, hero)))
          /\ hero'.hp = IF Lost' THEN 0 ELSE hero.hp - dmg
          /\ Lost' => hero.hp - dmg <= 0
          /\ hero'.x = hero.x /\ hero'.y = hero.y /\ hero'.attack = hero.attack
          /\ map' = map /\ potionsCarried' = potionsCarried]_vars

\* an Attack has hit two neighbours, both have retaliated, and the hero is dead
C13_Witness ==
  /\ pc = "updateEnemies"
  /\ op = "attack"
  /\ i = 1
  /\ Lost
  /\ Len(enemies) = 2
  /\ \A j \in 1 .. 2 : enemies[j]._justRetaliated /\ besideHero(enemies[j], hero)

\* the indices of the enemies of es on the four neighbour tiles of h
neighbours(es, h) == {n \in 1 .. Len(es) : besideHero(es[n], h)}

\* C14: pickup on Move.  When the hero lands on a Potion tile, potionsCarried
\* grows by 1, hero.hp becomes min(maxHp, hp + heal amount) and the tile
\* becomes Empty; on a Sword tile hero.attack grows by the bonus amount and the
\* tile becomes Empty; on any other tile attack, potionsCarried and the grid
\* stay and nothing heals.  The pickup comes before the adjacency damage: the
\* damage is taken from the healed hp, and the hero is Lost in that Move
\* exactly when the healed hp minus the damage is <= 0.
C14_PickupOnMove ==
  [][MoveStep =>
       LET t == map[hero'.y][hero'.x]
           healed == IF t = TILE_POTION
                       THEN Min(hero.maxHp, hero.hp + POTION_COUNT) ELSE hero.hp
           dmg == attackSum(enemies, neighbours(enemies, hero'))
       IN /\ potionsCarried' = IF t = TILE_POTION THEN potionsCarried + 1
                                ELSE potionsCarried
          /\ hero'.attack = IF t = TILE_SWORD THEN hero.attack + SWORD_COUNT
                             ELSE hero.attack
          /\ map' = IF t \in {TILE_POTION, TILE_SWORD}
                      THEN setTile(map, hero'.x, hero'.y, TILE_EMPTY) ELSE map
          /\ Lost' <=> healed - dmg <= 0
          /\ hero'.hp = IF Lost' THEN 0 ELSE healed - dmg
          /\ hero'.maxHp = hero.maxHp]_vars

\* the hero has drunk the potion on a tile beside an enemy, before any Attack
C14_Witness ==
  /\ pc = "updateEnemies"
  /\ op = "moved"
  /\ i = 1
  /\ potionsCarried = 1
  /\ killed = 0
  /\ hero.hp = HERO_HP - 1
  /\ neighbours(enemies, hero) # {}
  /\ \A j \in 1 .. Len(enemies) : enemies[j].hp = ENEMY_HP

\* C15: the grid changes only through the hero's pickup.  Within a game a
\* tile changes only from Sword or Potion to Empty, only in a Move and only at
\* the tile the hero has just moved onto (so Wall tiles never change and the
\* number of item tiles never grows); the enemy turn and Attack leave the
\* grid, potionsCarried and hero.attack as they are; and every enemy stands
\* on an Empty tile, never on an item.
C15_GridChangesOnlyByPickup ==
  /\ [](pc # "new" =>
          \A j \in 1 .. Len(enemies) : map[enemies[j].y][enemies[j].x] = TILE_EMPTY)
  /\ [][~InitStep =>
          /\ \A c \in Xs \X Ys :
                map'[c[2]][c[1]] # map[c[2]][c[1]] =>
                  /\ map[c[2]][c[1]] \in {TILE_SWORD, TILE_POTION}
                  /\ map'[c[2]][c[1]] = TILE_EMPTY
                  /\ MoveStep
                  /\ hero'.x = c[1] /\ hero'.y = c[2]
          /\ (pc = "updateEnemies" \/ AttackStep) =>
                /\ map' = map
                /\ potionsCarried' = potionsCarried
                /\ hero'.attack = hero.attack]_vars

\* after the hero has drunk the potion, an enemy that is about to draw its
\* step stands one wrapped step from the Sword tile
C15_Witness ==
  /\ pc = "updateEnemies"
  /\ potionsCarried = 1
  /\ ~enemies[i]._justRetaliated
  /\ ~adjacentToHero(enemies[i], hero)
  /\ \E c \in tilesOf(TILE_SWORD) : wrapNeighbour(enemies[i], [x |-> c[1], y |-> c[2]])

\* ---- Map generation, one loop iteration at a time
\*
\* generateMap, placeRooms and carveCorridors as loops, on a grid large
\* enough for rooms of several sizes at several places.  As in index.js,
\* the largest room leaves a margin: GenRoomMax <= GenWidth - 3 and
\* GenRoomMax <= GenHeight - 3.
GenWidth == 6
GenHeight == 6
GenRoomMin == 1
GenRoomMax == 2
GenRoomCountMin == 2
GenRoomCountMax == 2
GenCorridorMin == 0
GenCorridorMax == 1

\* for (let x = 0; x < MAP_WIDTH; x++) map[y][x] = TILE_EMPTY
carveRow(m, y) ==
  [yy \in DOMAIN m |-> [xx \in DOMAIN m[yy] |-> IF yy = y THEN TILE_EMPTY ELSE m[yy][xx]]]

\* for (let y = 0; y < MAP_HEIGHT; y++) map[y][x] = TILE_EMPTY
carveCol(m, x) ==
  [yy \in DOMAIN m |-> [xx \in DOMAIN m[yy] |-> IF xx = x THEN TILE_EMPTY ELSE m[yy][xx]]]

\* init() of a fresh page after generateMap and the first line of placeRooms
GenerationInit ==
  /\ map = generateMapOf(GenWidth, GenHeight)
  /\ rooms = << >>
  /\ hero = newHero
  /\ enemies = << >>
  /\ potionsCarried = 0
  /\ killed = 0
  /\ _gameOver = FALSE
  /\ _win = FALSE
  /\ pc = "placeRooms"
  /\ i = 0
  /\ key = "none"
  /\ op = "none"
  /\ entry = << >>

\* The loop of placeRooms: one more room, or the end of the loop.  The code
\* draws count first; the loop here ends after any number of rooms count can
\* be, which builds the same room lists.
PlaceRoomStep ==
  /\ pc = "placeRooms"
  /\ \/ /\ Len(rooms) < GenRoomCountMax
        /\ \E r \in roomChoicesOf(GenWidth, GenHeight, GenRoomMin, GenRoomMax) :
             /\ rooms' = Append(rooms, r)
             /\ map' = carveRoom(map, r)
        /\ UNCHANGED <<pc, i>>
     \/ /\ Len(rooms) >= GenRoomCountMin
        /\ pc' = "carveCorridors"
        /\ i' = 2
        /\ UNCHANGED <<map, rooms>>
  /\ UNCHANGED <<hero, enemies, potionsCarried, killed, _gameOver, _win, key, op, entry>>

\* the first loop of carveCorridors; i is the index of r2 (1-based here)
CarveLStep ==
  /\ pc = "carveCorridors"
  /\ IF i > Len(rooms)
       THEN /\ pc' = "carveH"
            /\ i' = 0
            /\ UNCHANGED map
       ELSE /\ map' = carveL(map, rooms[i - 1], rooms[i])
            /\ i' = i + 1
            /\ UNCHANGED pc
  /\ UNCHANGED <<rooms, hero, enemies, potionsCarried, killed, _gameOver, _win, key, op, entry>>

\* the loop of the hCount full-width corridors (hCount treated as count above)
CarveHStep ==
  /\ pc = "carveH"
  /\ \/ /\ i < GenCorridorMax
        /\ \E y \in randomInt(1, GenHeight - 2) : map' = carveRow(map, y)
        /\ i' = i + 1
        /\ UNCHANGED pc
     \/ /\ i >= GenCorridorMin
        /\ pc' = "carveV"
        /\ i' = 0
        /\ UNCHANGED map
  /\ UNCHANGED <<rooms, hero, enemies, potionsCarried, killed, _gameOver, _win, key, op, entry>>

\* the loop of the vCount full-height corridors
CarveVStep ==
  /\ pc = "carveV"
  /\ \/ /\ i < GenCorridorMax
        /\ \E x \in randomInt(1, GenWidth - 2) : map' = carveCol(map, x)
        /\ i' = i + 1
        /\ UNCHANGED pc
     \/ /\ i >= GenCorridorMin
        /\ pc' = "generated"
        /\ i' = 0
        /\ UNCHANGED map
  /\ UNCHANGED <<rooms, hero, enemies, potionsCarried, killed, _gameOver, _win, key, op, entry>>

GenerationNext ==
  \/ PlaceRoomStep
  \/ CarveLStep
  \/ CarveHStep
  \/ CarveVStep

GenerationSpec == GenerationInit /\ [][GenerationNext]_vars

\* the centre tile of a room, as <<x, y>>
centre(r) == <<FloorHalf(r.x, r.w), FloorHalf(r.y, r.h)>>

\* the tiles of a room
roomTiles(r) == (r.x .. (r.x + r.w - 1)) \X (r.y .. (r.y + r.h - 1))

\* the non-Wall tiles of grid m
floorOf(m) == {c \in (DOMAIN m[0]) \X (DOMAIN m) : m[c[2]][c[1]] # TILE_WALL}

\* the tiles of F that a 4-connected path inside F joins to a tile of R
RECURSIVE grow(_, _)
grow(F, R) ==
  LET N == R \cup {c \in F : \E r \in R : Abs(c[1] - r[1]) + Abs(c[2] - r[2]) = 1}
  IN IF N = R THEN R ELSE grow(F, N)

\* the floor region of tile c in grid m
region(m, c) == IF c \in floorOf(m) THEN grow(floorOf(m), {c}) ELSE {}

\* the L between rooms a and b as the claim tells it: the row of a's centre
\* between the two centre columns, and the column of b's centre between the
\* two centre rows
runL(a, b) ==
  LET ca == centre(a)
      cb == centre(b)
  IN ((Min(ca[1], cb[1]) .. Max(ca[1], cb[1])) \X {ca[2]})
       \cup ({cb[1]} \X (Min(ca[2], cb[2]) .. Max(ca[2], cb[2])))

\* C16: room chaining.  Carving a room changes no tile of row 0, column 0, the
\* last row or the last column; and once the L between two consecutive rooms
\* is carved, all its tiles lie inside the grid and are not Wall, the two room
\* centres are in one 4-connected region of non-Wall tiles, and so every tile
\* of every room chained so far is in the floor region of the first room.
C16_RoomChaining ==
  /\ [][pc = "placeRooms" =>
          \A c \in (DOMAIN map[0]) \X (DOMAIN map) :
            map'[c[2]][c[1]] # map[c[2]][c[1]] =>
              /\ 1 <= c[1] /\ c[1] <= GenWidth - 2
              /\ 1 <= c[2] /\ c[2] <= GenHeight - 2]_vars
  /\ [](pc \in {"carveCorridors", "carveH", "carveV", "generated"} =>
          LET last == IF pc = "carveCorridors" THEN i - 1 ELSE Len(rooms)
          IN \A n \in 2 .. last :
               /\ runL(rooms[n - 1], rooms[n]) \subseteq floorOf(map)
               /\ centre(rooms[n]) \in region(map, centre(rooms[n - 1]))
               /\ roomTiles(rooms[1]) \cup roomTiles(rooms[n])
                    \subseteq region(map, centre(rooms[1])))

\* two rooms of different sizes are chained by an L with a bend whose two
\* runs are longer than one step, and no full-span corridor is carved yet
C16_Witness ==
  /\ pc = "carveH"
  /\ i = 0
  /\ Len(rooms) = 2
  /\ rooms[1].w # rooms[2].w
  /\ Abs(centre(rooms[1])[1] - centre(rooms[2])[1]) >= 2
  /\ Abs(centre(rooms[1])[2] - centre(rooms[2])[2]) >= 2

\* C17: Won and Lost are mutually exclusive and Won is never overridden.  The
\* phase is never both; whenever it is Won, hero.hp > 0; a Won game stays Won
\* and a Lost game stays Lost through every step (the rest of the Attack, the
\* enemy turn after it, every later input) until a Restart resets the game.
C17_WonLostExclusive ==
  /\ [](pc # "new" => (~(Won /\ Lost) /\ (Won => hero.hp > 0)))
  /\ [][(Won /\ _gameOver') => Won']_vars
  /\ [][(Lost /\ _gameOver') => Lost']_vars

\* the hero has won with its last hit point
C17_Witness == pc = "idle" /\ Won /\ op = "attack" /\ hero.hp = 1

\* C18: the justRetaliated flag never leaks across actions.  Whenever no
\* player action is in progress (after init and after every completed action,
\* also one whose enemy turn ended early because the hero died) no enemy of
\* the list carries the flag; and no iteration of the enemy turn that follows
\* an Attack changes hero.hp.
C18_FlagNeverLeaks ==
  /\ [](pc = "idle" => \A j \in 1 .. Len(enemies) : ~enemies[j]._justRetaliated)
  /\ [][(pc = "updateEnemies" /\ op = "attack") => hero'.hp = hero.hp]_vars

\* a completed action has left the game Lost with both enemies beside the
\* hero, each of them hit, and so flagged, by an Attack before
C18_Witness ==
  /\ pc = "idle"
  /\ Lost
  /\ killed = 0
  /\ \A j \in 1 .. Len(enemies) :
       enemies[j].hp < ENEMY_HP /\ besideHero(enemies[j], hero)

\* ---- C19

\* the last step of the enemy turn of a Move that leaves the game Playing
MoveSurvived ==
  pc = "updateEnemies" /\ op = "moved" /\ pc' = "idle" /\ ~_gameOver'

\* C19: when the enemy turn of a successful Move ends with the hero alive,
\* hero.hp is the hp the hero had at the entry of the call, healed by the
\* Potion of the new tile (if any, clamped to maxHp), minus twice the sum of the
\* attack values of the enemies that stood orthogonally beside the new
\* position when the hero arrived; those enemies have not moved, every other
\* enemy took no hit at the hero, and nothing else of the hero changed after
\* the pickup.
C19_NetDamageOfMove ==
  [][MoveSurvived =>
       LET e == entry[1]
           t == e.map[hero.y][hero.x]
           healed == IF t = TILE_POTION
                       THEN Min(e.hero.maxHp, e.hero.hp + POTION_COUNT)
                       ELSE e.hero.hp
           N == neighbours(e.enemies, hero)
       IN /\ Len(entry) = 1
          /\ hero'.hp = healed - 2 * attackSum(e.enemies, N)
          /\ hero'.x = hero.x /\ hero'.y = hero.y
          /\ Len(enemies') = Len(e.enemies)
          /\ \A n \in N : enemies'[n] = e.enemies[n]]_vars

\* the enemy turn of a Move is at its last enemy; the first enemy stood
\* beside the hero's new tile and has hit twice, the second does not, and the
\* hero is alive
C19_Witness ==
  /\ pc = "updateEnemies" /\ op = "moved" /\ i = 2 /\ Len(enemies) = 2
  /\ ~_gameOver
  /\ besideHero(enemies[1], hero) /\ ~besideHero(enemies[2], hero)
  /\ Len(entry) = 1
  /\ hero.hp = entry[1].hero.hp - 2 * enemies[1].attack

\* ---- C20

\* e is one wrapped step away from the hero h, but on none of the four tiles
\* h + dirs[d]: adjacent across the seam only
seamOnly(e, h) == wrapNeighbour(h, e) /\ ~besideHero(e, h)

\* es has an enemy on the tile one wrapped step from h in direction d
enemyOnStep(es, h, d) ==
  \E n \in 1 .. Len(es) :
    /\ es[n].x = wrap(h.x + d.dx, MAP_WIDTH)
    /\ es[n].y = wrap(h.y + d.dy, MAP_HEIGHT)

\* C20: combat adjacency does not wrap, movement does.
\*  - the tile lookup of Move and Attack and the distance test of the enemy
\*    turn select the same enemies, in every state;
\*  - an Attack leaves every enemy that is adjacent across the seam only as it
\*    was (same hp, no flag), and with no enemy beside the hero it changes
\*    neither the list nor hero.hp;
\*  - a Move that ends with no enemy beside the new tile takes no damage,
\*    whatever stands across the seam;
\*  - the iteration of the enemy turn of an unflagged enemy that is adjacent
\*    across the seam only leaves hero.hp and the game status unchanged, and
\*    the enemy does not end on the hero's tile;
\*  - a Move whose wrapped candidate tile holds an enemy is blocked: the hero
\*    stays where he is.
C20_CombatAdjacencyNotToroidal ==
  /\ [](pc # "new" =>
         \A j \in 1 .. Len(enemies) :
           besideHero(enemies[j], hero) <=> adjacentToHero(enemies[j], hero))
  /\ [][AttackStep =>
          /\ \A j \in 1 .. Len(enemies) :
               seamOnly(enemies[j], hero) =>
                 \E n \in 1 .. Len(enemies') : enemies'[n] = enemies[j]
          /\ neighbours(enemies, hero) = {} =>
               enemies' = enemies /\ hero' = hero /\ ~_gameOver']_vars
  /\ [][(MoveStep /\ neighbours(enemies, hero') = {}) =>
          hero'.hp >= hero.hp /\ ~_gameOver']_vars
  /\ [][(/\ pc = "updateEnemies"
          /\ seamOnly(enemies[i], hero)
          /\ ~enemies[i]._justRetaliated) =>
          /\ hero' = hero
          /\ _gameOver' = _gameOver
          /\ ~(enemies'[i].x = hero.x /\ enemies'[i].y = hero.y)
          /\ enemies'[i].hp = enemies[i].hp]_vars
  /\ [][(/\ pc = "idle" /\ ~_gameOver
          /\ key' \in DOMAIN keyMap
          /\ enemyOnStep(enemies, hero, keyMap[key'])) =>
          /\ op' = "blocked"
          /\ hero'.x = hero.x /\ hero'.y = hero.y
          /\ map' = map]_vars

\* the enemy turn of an Attack is at an enemy that stands in column 0 of the
\* hero's row while the hero stands in the last column: the Attack did not
\* touch it and it is about to take its turn
C20_Witness ==
  /\ pc = "updateEnemies" /\ op = "attack" /\ ~_gameOver
  /\ hero.x = MAP_WIDTH - 1
  /\ enemies[i].x = 0 /\ enemies[i].y = hero.y
  /\ seamOnly(enemies[i], hero)
  /\ enemies[i].hp = ENEMY_HP /\ ~enemies[i]._justRetaliated
  /\ entry[1].enemies = enemies

====
